---------------------------- MODULE Spec2Model ----------------------------
(***************************************************************************)
(* DriveDoc backend: documents with an expiry status, lesson bookings,     *)
(* payments that extend a document, the cookie/JWT auth guard and the      *)
(* expiry-notification scan.                                               *)
(*                                                                         *)
(* Dates are integers counted in hours (the source counts milliseconds;    *)
(* the ceiling division by one day is the same).  A handler takes the      *)
(* identity the auth guard attached to the request (req.user.id) as its    *)
(* parameter user.  Under Spec, SpecPay and SpecBooking requests are       *)
(* handled one after another, each handler as one step, and storage calls  *)
(* succeed unless the code itself makes them fail (validation).            *)
(***************************************************************************)
EXTENDS Integers, Sequences, FiniteSets, TLC

VARIABLES now, docs, payments, bookings, subs, scan, timer, calls, req, resp

vars == <<now, docs, payments, bookings, subs, scan, timer, calls, req, resp>>

---------------------------------------------------------------------------
(* Bounds of the model *)

MaxDocs == 1
MaxTicks == 1
MaxBookings == 2
MaxScanDocs == 2
MaxTimerTicks == 2

(* Program constants *)

\* 1000 * 60 * 60 * 24 milliseconds, in hours
DayLen == 24
\* daysUntilExpiry <= 30
SoonDays == 30

\* setFullYear(getFullYear() + 1), for a common year
YearLen == 365 * DayLen

---------------------------------------------------------------------------
(* Values *)

Absent == "absent"
NoDoc == [deleted |-> TRUE]

\* users in storage, and an id that names no stored user
Users == {"u1", "u2"}
GoneUser == "u0"

StatusEnum == {"valid", "expiring", "expired"}

\* expiry dates a caller may send: long past, within the last day, now,
\* exactly 30 days ahead, 30.5 days ahead
ExpiryChoices == {-2 * DayLen, -(DayLen \div 2), 0, SoonDays * DayLen,
                  SoonDays * DayLen + DayLen \div 2}

\* request bodies of POST /documents and PUT /documents/:id; expiryDate is
\* <<>> when the body does not carry it, complete says whether country,
\* type and number are all there
DocBodies == [expiryDate : {<<>>} \cup {<<d>> : d \in ExpiryChoices},
              status : {Absent, "valid", "expired", "bogus"},
              user : {Absent, "u2"},
              complete : BOOLEAN]
UpdateBodies == {body \in DocBodies : body.complete}
\* bodies that carry the required fields and nothing else
PlainBodies == {body \in DocBodies : /\ body.complete /\ body.expiryDate # <<>>
                                      /\ body.status = Absent /\ body.user = Absent}

Refs == {"r1", "r2"}
GatewayAnswers == {"success", "failed", "throw"}

\* ids a caller may name: 0 names no document
DocIdInputs == 0..MaxDocs

\* lesson dates and start times a caller may send
Dates == {1, 2}
Times == {"10:00", "11:00"}

\* request bodies of POST /bookings; date is <<>> when the body does not
\* carry it, valid says whether lessonType and notes pass the schema
BookingBodies == [date : {<<>>} \cup {<<d>> : d \in Dates},
                  startTime : {Absent} \cup Times,
                  valid : BOOLEAN]
BookingIdInputs == 0..MaxBookings

\* push endpoints a caller may subscribe
Endpoints == {"e1", "e2"}

\* bodies of the documents the scan is run on: expired, expiring within the
\* window, and beyond it
ScanBodies == {body \in PlainBodies :
                 body.expiryDate[1] \in {-2 * DayLen, SoonDays * DayLen,
                                         SoonDays * DayLen + DayLen \div 2}}

NoReq == "none"

\* the timer of the scan: whether the process has started (setInterval has
\* been called), the ticks the timer has fired and the scans begun
NoTimer == [started |-> FALSE, ticks |-> 0, scans |-> 0]

\* requests in flight at once; a call is a handler between two of its awaits:
\* the requester, the request's arguments, what its last read returned
CallSlots == {1, 2}
IdleCall == [pc |-> "idle", user |-> NoReq, arg |-> <<>>, read |-> <<>>, code |-> 0]
NoResp == [op |-> "none", code |-> 0, msg |-> ""]

Resp(op, code, msg) == [op |-> op, code |-> code, msg |-> msg]

---------------------------------------------------------------------------
(* Auth guard *)

\* a token: the identity it names, and whether jwt.verify accepts it
Tokens == [id : Users \cup {GoneUser}, verifies : BOOLEAN]
NoToken == [id |-> "none", verifies |-> FALSE]
Creds == [cookie : {NoToken} \cup Tokens, bearer : {NoToken} \cup Tokens]

\* User.findById
UserFindById(id) == IF id \in Users THEN id ELSE NoReq

\* the token the guard reads: the cookie first, else the Bearer header
ExtractToken(cred) ==
    IF cred.cookie # NoToken THEN cred.cookie ELSE cred.bearer

\* the guard without the lookup of the user in storage
protectUserUnchecked(cred) ==
    LET token == ExtractToken(cred) IN
    IF token = NoToken THEN NoReq
    ELSE IF ~token.verifies THEN NoReq
    ELSE token.id

\* the guard's outcome: the user attached to the request, or NoReq for 401
protectUser(cred) ==
    LET token == ExtractToken(cred) IN
    IF token = NoToken THEN NoReq
    ELSE IF ~token.verifies THEN NoReq
    ELSE UserFindById(token.id)

protect(cred) ==
    /\ req = NoReq
    /\ LET user == protectUser(cred) IN
       IF user = NoReq
       THEN /\ resp' = Resp("protect", 401, "Not authorized")
            /\ req' = NoReq
       ELSE /\ req' = user
            /\ resp' = NoResp
    /\ UNCHANGED <<now, docs, payments, bookings, subs, scan, timer, calls>>

---------------------------------------------------------------------------
(* Document status *)

\* the division rounded down instead of up
FloorDiv(a, b) == a \div b

\* Math.ceil(a / b) for b > 0
Ceil(a, b) == -((-a) \div b)

\* documentSchema.pre('save')
preSaveStatus(expiryDate, today) ==
    LET daysUntilExpiry == Ceil(expiryDate - today, DayLen) IN
    IF daysUntilExpiry < 0 THEN "expired"
    ELSE IF daysUntilExpiry <= SoonDays THEN "expiring"
    ELSE "valid"

\* schema validation of a new document; it runs before pre('save')
DocValid(body) ==
    /\ body.complete
    /\ body.expiryDate # <<>>
    /\ body.status \in StatusEnum \cup {Absent}

\* validation of the paths an update sets (runValidators)
UpdateValid(body) == body.status \in StatusEnum \cup {Absent}

\* Document.findById(id) finds a document
Exists(id) == id \in 1..Len(docs) /\ docs[id] # NoDoc

\* the ownership test left out
ownsDocumentUnchecked(user, id) == TRUE

\* document.user.toString() === req.user.id
ownsDocument(user, id) == docs[id].user = user

addDocument(user, body) ==
    /\ IF DocValid(body)
       THEN /\ docs' = Append(docs,
                          [user |-> user,
                           expiryDate |-> body.expiryDate[1],
                           status |-> preSaveStatus(body.expiryDate[1], now)])
            /\ resp' = Resp("addDocument", 201, "Document added successfully")
       ELSE /\ resp' = Resp("addDocument", 500, "Server error")
            /\ UNCHANGED docs
    /\ UNCHANGED <<now, payments, bookings, subs, scan>>

updateDocument(user, id, body) ==
    /\ IF ~Exists(id)
       THEN /\ resp' = Resp("updateDocument", 404, "Document not found")
            /\ UNCHANGED docs
       ELSE IF ~ownsDocument(user, id)
       THEN /\ resp' = Resp("updateDocument", 401, "Not authorized")
            /\ UNCHANGED docs
       ELSE IF ~UpdateValid(body)
       THEN /\ resp' = Resp("updateDocument", 500, "Server error")
            /\ UNCHANGED docs
       ELSE /\ docs' = [docs EXCEPT ![id] =
                 [user |-> IF body.user = Absent THEN @.user ELSE body.user,
                  expiryDate |-> IF body.expiryDate = <<>>
                                 THEN @.expiryDate ELSE body.expiryDate[1],
                  status |-> IF body.status = Absent
                             THEN @.status ELSE body.status]]
            /\ resp' = Resp("updateDocument", 200, "Document updated successfully")
    /\ UNCHANGED <<now, payments, bookings, subs, scan>>

deleteDocument(user, id) ==
    /\ IF ~Exists(id)
       THEN /\ resp' = Resp("deleteDocument", 404, "Document not found")
            /\ UNCHANGED docs
       ELSE IF ~ownsDocument(user, id)
       THEN /\ resp' = Resp("deleteDocument", 401, "Not authorized")
            /\ UNCHANGED docs
       ELSE /\ docs' = [docs EXCEPT ![id] = NoDoc]
            /\ resp' = Resp("deleteDocument", 200, "Document deleted successfully")
    /\ UNCHANGED <<now, payments, bookings, subs, scan>>

---------------------------------------------------------------------------
(* Payments *)

\* the lookup of an earlier record left out
HasPaymentUnchecked(reference) == FALSE

\* Payment.findOne({ paystackReference: reference })
HasPayment(reference) ==
    \E i \in 1..Len(payments) : payments[i].paystackReference = reference

\* now.setFullYear(now.getFullYear() + 1)
AddYear(date) == date + YearLen

\* the extension always counted from the old expiry date
ExtendedDateFromOld(oldDate, today) == AddYear(oldDate)

\* the date the extension starts from
ExtendedDate(oldDate, today) ==
    IF oldDate < today THEN AddYear(today) ELSE AddYear(oldDate)

\* the Paystack call with data.status never looked at
paystackStatusUnchecked(secretKey, gateway) ==
    IF ~secretKey \/ gateway = "throw" THEN "throw" ELSE "success"

\* the Paystack call: "throw" when the secret key is not configured or the
\* call fails, else data.status
paystackStatus(secretKey, gateway) ==
    IF ~secretKey \/ gateway = "throw" THEN "throw" ELSE gateway

verifyPayment(user, reference, documentId, secretKey, gateway) ==
    /\ IF paystackStatus(secretKey, gateway) = "throw"
       THEN /\ resp' = Resp("verifyPayment", 500, "Verification failed")
            /\ UNCHANGED <<docs, payments>>
       ELSE IF paystackStatus(secretKey, gateway) # "success"
       THEN /\ resp' = Resp("verifyPayment", 400, "Payment verification failed")
            /\ UNCHANGED <<docs, payments>>
       ELSE IF HasPayment(reference)
       THEN /\ resp' = Resp("verifyPayment", 200, "Already processed")
            /\ UNCHANGED <<docs, payments>>
       ELSE /\ payments' = Append(payments,
                 [user |-> user, document |-> documentId,
                  paystackReference |-> reference])
            /\ IF ~Exists(documentId)
               THEN /\ resp' = Resp("verifyPayment", 404, "Document not found")
                    /\ UNCHANGED docs
               ELSE LET newDate == ExtendedDate(docs[documentId].expiryDate, now)
                    IN /\ docs' = [docs EXCEPT ![documentId] =
                              [@ EXCEPT !.expiryDate = newDate,
                                        !.status = preSaveStatus(newDate, now)]]
                       /\ resp' = Resp("verifyPayment", 200, "document")
    /\ UNCHANGED <<now, bookings, subs, scan>>

---------------------------------------------------------------------------
(* Bookings *)

\* the lookup asking for status 'pending', a status no booking is created with
existingBookingPending(user, body) ==
    \E i \in 1..Len(bookings) :
        /\ bookings[i].user = user
        /\ <<bookings[i].date>> = body.date
        /\ bookings[i].startTime = body.startTime
        /\ bookings[i].status = "pending"

\* the lookup without the status filter
existingBookingAnyStatus(user, body) ==
    \E i \in 1..Len(bookings) :
        /\ bookings[i].user = user
        /\ <<bookings[i].date>> = body.date
        /\ bookings[i].startTime = body.startTime

\* Booking.findOne({ user, date, startTime, status: { $ne: 'cancelled' } })
existingBooking(user, body) ==
    \E i \in 1..Len(bookings) :
        /\ bookings[i].user = user
        /\ <<bookings[i].date>> = body.date
        /\ bookings[i].startTime = body.startTime
        /\ bookings[i].status # "cancelled"

\* schema validation of a new booking
BookingValid(body) ==
    /\ body.date # <<>>
    /\ body.startTime # Absent
    /\ body.valid

createBooking(user, body) ==
    /\ IF existingBooking(user, body)
       THEN /\ resp' = Resp("createBooking", 400,
                            "You already have a booking at this time")
            /\ UNCHANGED bookings
       ELSE IF ~BookingValid(body)
       THEN /\ resp' = Resp("createBooking", 500, "Server Error")
            /\ UNCHANGED bookings
       ELSE /\ bookings' = Append(bookings,
                 [user |-> user, date |-> body.date[1],
                  startTime |-> body.startTime, status |-> "confirmed"])
            /\ resp' = Resp("createBooking", 201, "data")
    /\ UNCHANGED <<now, docs, payments, subs, scan>>

\* the ownership test left out
ownsBookingUnchecked(user, id) == TRUE

\* booking.user.toString() === req.user.id
ownsBooking(user, id) == bookings[id].user = user

cancelBooking(user, id) ==
    /\ IF id \notin 1..Len(bookings)
       THEN /\ resp' = Resp("cancelBooking", 404, "Booking not found")
            /\ UNCHANGED bookings
       ELSE IF ~ownsBooking(user, id)
       THEN /\ resp' = Resp("cancelBooking", 401,
                            "Not authorized to cancel this booking")
            /\ UNCHANGED bookings
       ELSE /\ bookings' = [bookings EXCEPT ![id].status = "cancelled"]
            /\ resp' = Resp("cancelBooking", 200, "data")
    /\ UNCHANGED <<now, docs, payments, subs, scan>>

---------------------------------------------------------------------------
(* Push subscriptions *)

HasEndpoint(user, endpoint) ==
    \E k \in 1..Len(subs[user]) : subs[user][k].endpoint = endpoint

\* $set on the element the filter matched
SetEnabled(user, endpoint, enabled) ==
    [k \in 1..Len(subs[user]) |->
        IF subs[user][k].endpoint = endpoint
        THEN [subs[user][k] EXCEPT !.enabled = enabled]
        ELSE subs[user][k]]

subscribe(user, endpoint) ==
    /\ subs' = [subs EXCEPT ![user] =
                  IF HasEndpoint(user, endpoint)
                  THEN SetEnabled(user, endpoint, TRUE)
                  ELSE Append(@, [endpoint |-> endpoint, enabled |-> TRUE])]
    /\ resp' = Resp("subscribe", 201, "")
    /\ UNCHANGED <<now, docs, payments, bookings, scan>>

optOut(user, endpoint) ==
    /\ subs' = [subs EXCEPT ![user] = SetEnabled(user, endpoint, FALSE)]
    /\ resp' = Resp("opt-out", 200, "")
    /\ UNCHANGED <<now, docs, payments, bookings, scan>>

optIn(user, endpoint) ==
    /\ subs' = [subs EXCEPT ![user] = SetEnabled(user, endpoint, TRUE)]
    /\ resp' = Resp("opt-in", 200, "")
    /\ UNCHANGED <<now, docs, payments, bookings, scan>>

unsubscribe(user, endpoint) ==
    /\ subs' = [subs EXCEPT ![user] =
                  SelectSeq(@, LAMBDA sub : sub.endpoint # endpoint)]
    /\ resp' = Resp("unsubscribe", 200, "")
    /\ UNCHANGED <<now, docs, payments, bookings, scan>>

---------------------------------------------------------------------------
(* The expiry-notification scan.  One step per await: the two queries, the
   lookup of an owner's subscriptions, each delivery.  queue holds the
   documents of the first loop (expired) followed by those of the second
   (expiring soon); log holds the delivery attempts made and failures counts
   those that threw. *)

NotCached == <<"?">>
IdleScan == [pc |-> "idle", queue |-> <<>>, i |-> 1, j |-> 1,
             usersMap |-> [u \in Users |-> NotCached], log |-> <<>>,
             failures |-> 0]

\* Document.find(filter), in storage order, tagged with the loop it is for
RECURSIVE FindDocs(_, _, _, _)
FindDocs(id, low, high, kind) ==
    IF id > Len(docs) THEN <<>>
    ELSE (IF /\ docs[id] # NoDoc
             /\ low < docs[id].expiryDate
             /\ docs[id].expiryDate <= high
          THEN <<[id |-> id, user |-> docs[id].user, kind |-> kind]>>
          ELSE <<>>) \o FindDocs(id + 1, low, high, kind)

\* a date before every date of the model
Epoch == -(YearLen * 100)

\* the subscriptions taken without the filter on enabled
RECURSIVE AllEndpoints(_)
AllEndpoints(list) ==
    IF list = <<>> THEN <<>>
    ELSE <<Head(list).endpoint>> \o AllEndpoints(Tail(list))

\* u.pushSubscriptions.filter((s) => s.enabled), the endpoints of it
RECURSIVE EnabledEndpoints(_)
EnabledEndpoints(list) ==
    IF list = <<>> THEN <<>>
    ELSE (IF Head(list).enabled THEN <<Head(list).endpoint>> ELSE <<>>)
         \o EnabledEndpoints(Tail(list))

\* a delivery that throws ends the scan (the throw reaches the outer catch)
afterSendFailureAbort == "return"

\* where the scan goes on after a delivery has thrown: catch (_) {}
afterSendFailure == "loop"

\* const expiredDocs = await Document.find({ expiryDate: { $lte: now } })
scanFindExpired ==
    /\ scan.pc = "idle"
    /\ scan' = [IdleScan EXCEPT !.pc = "findSoon",
                                !.queue = FindDocs(1, Epoch, now, "expired")]
    /\ UNCHANGED <<now, docs, payments, bookings, subs, calls, req, resp>>

\* const expiringSoonDocs = await Document.find({ $gt: now, $lte: soonThreshold })
scanFindSoon ==
    /\ scan.pc = "findSoon"
    /\ scan' = [scan EXCEPT !.pc = "loop",
                  !.queue = @ \o FindDocs(1, now, now + SoonDays * DayLen, "soon")]
    /\ UNCHANGED <<now, docs, payments, bookings, subs, timer, calls, req, resp>>

\* if (!usersMap[uid]) usersMap[uid] = ... await User.findById(uid) ...
scanLookup ==
    /\ scan.pc = "loop"
    /\ scan.i <= Len(scan.queue)
    /\ LET uid == scan.queue[scan.i].user IN
       /\ scan.usersMap[uid] = NotCached
       /\ scan' = [scan EXCEPT !.usersMap[uid] =
                     IF UserFindById(uid) = NoReq THEN <<>>
                     ELSE EnabledEndpoints(subs[uid])]
    /\ UNCHANGED <<now, docs, payments, bookings, subs, timer, calls, req, resp>>

\* await webpush.sendNotification(...) for the next subscription; ok says
\* whether the delivery succeeded
scanSend(ok) ==
    /\ scan.pc = "loop"
    /\ scan.i <= Len(scan.queue)
    /\ LET list == scan.usersMap[scan.queue[scan.i].user] IN
       /\ list # NotCached
       /\ scan.j <= Len(list)
       /\ scan' = [scan EXCEPT
                     !.log = Append(@, [doc |-> scan.i, endpoint |-> list[scan.j]]),
                     !.failures = IF ok THEN @ ELSE @ + 1,
                     !.j = @ + 1,
                     !.pc = IF ok THEN "loop" ELSE afterSendFailure]
    /\ UNCHANGED <<now, docs, payments, bookings, subs, timer, calls, req, resp>>

\* the inner loop is over: on to the next document
scanNextDoc ==
    /\ scan.pc = "loop"
    /\ scan.i <= Len(scan.queue)
    /\ LET list == scan.usersMap[scan.queue[scan.i].user] IN
       /\ list # NotCached
       /\ scan.j > Len(list)
       /\ scan' = [scan EXCEPT !.i = @ + 1, !.j = 1]
    /\ UNCHANGED <<now, docs, payments, bookings, subs, timer, calls, req, resp>>

\* both loops are over: the scan returns
scanLoopsEnd ==
    /\ scan.pc = "loop"
    /\ scan.i > Len(scan.queue)
    /\ scan' = [scan EXCEPT !.pc = "return"]
    /\ UNCHANGED <<now, docs, payments, bookings, subs, timer, calls, req, resp>>

\* the scan has returned; the timer will start the next one
scanDone ==
    /\ scan.pc = "return"
    /\ scan' = IdleScan
    /\ UNCHANGED <<now, docs, payments, bookings, subs, timer, calls, req, resp>>

\* the module is loaded: app.listen(...), then setInterval(fullNotifyExpired,
\* intervalMs); no scan is called here
startServer ==
    /\ ~timer.started
    /\ timer' = [timer EXCEPT !.started = TRUE]
    /\ UNCHANGED <<now, docs, payments, bookings, subs, scan, calls, req, resp>>

\* the interval timer fires and calls fullNotifyExpired (the scan before it
\* has returned)
timerTick ==
    /\ timer.started
    /\ timer.ticks < MaxTimerTicks
    /\ scanFindExpired
    /\ timer' = [timer EXCEPT !.ticks = @ + 1, !.scans = @ + 1]

---------------------------------------------------------------------------
(* Handlers step by step: one step per await, so that the steps of two
   requests in flight interleave.  calls[c].pc names the await the call is
   at, calls[c].code the status it has answered with once it is done. *)

Respond(c, op, code, msg) ==
    /\ calls' = [calls EXCEPT ![c].pc = "done", ![c].code = code]
    /\ resp' = Resp(op, code, msg)

\* a unique index on paystackReference: the insert of a second record fails
paymentInsertUnique(reference) == ~HasPayment(reference)

\* Payment.create succeeds: paystackReference is required and not unique
paymentInsertAccepted(reference) == TRUE

\* verifyPayment up to await axios.get(...) and the test of data.status
payBegin(c, user, reference, documentId, secretKey, gateway) ==
    /\ calls[c].pc = "idle"
    /\ IF paystackStatus(secretKey, gateway) = "throw"
       THEN Respond(c, "verifyPayment", 500, "Verification failed")
       ELSE IF paystackStatus(secretKey, gateway) # "success"
       THEN Respond(c, "verifyPayment", 400, "Payment verification failed")
       ELSE /\ calls' = [calls EXCEPT ![c] =
                 [IdleCall EXCEPT !.pc = "lookup", !.user = user,
                                  !.arg = <<reference, documentId>>]]
            /\ UNCHANGED resp
    /\ UNCHANGED <<now, docs, payments, bookings, subs, scan, timer, req>>

\* await Payment.findOne({ paystackReference: reference })
payLookup(c) ==
    /\ calls[c].pc = "lookup"
    /\ IF HasPayment(calls[c].arg[1])
       THEN Respond(c, "verifyPayment", 200, "Already processed")
       ELSE calls' = [calls EXCEPT ![c].pc = "record"] /\ UNCHANGED resp
    /\ UNCHANGED <<now, docs, payments, bookings, subs, scan, timer, req>>

\* await Payment.create({...})
payRecord(c) ==
    /\ calls[c].pc = "record"
    /\ IF paymentInsertAccepted(calls[c].arg[1])
       THEN /\ payments' = Append(payments,
                 [user |-> calls[c].user, document |-> calls[c].arg[2],
                  paystackReference |-> calls[c].arg[1]])
            /\ calls' = [calls EXCEPT ![c].pc = "find"]
            /\ UNCHANGED resp
       ELSE /\ Respond(c, "verifyPayment", 500, "Verification failed")
            /\ UNCHANGED payments
    /\ UNCHANGED <<now, docs, bookings, subs, scan, timer, req>>

\* await Document.findById(documentId), and newDate computed from what it
\* returned
payFind(c) ==
    /\ calls[c].pc = "find"
    /\ IF ~Exists(calls[c].arg[2])
       THEN Respond(c, "verifyPayment", 404, "Document not found")
       ELSE /\ calls' = [calls EXCEPT
                 ![c].pc = "save",
                 ![c].read = <<ExtendedDate(docs[calls[c].arg[2]].expiryDate, now)>>]
            /\ UNCHANGED resp
    /\ UNCHANGED <<now, docs, payments, bookings, subs, scan, timer, req>>

\* await document.save()
paySave(c) ==
    /\ calls[c].pc = "save"
    /\ docs' = [docs EXCEPT ![calls[c].arg[2]] =
                  [@ EXCEPT !.expiryDate = calls[c].read[1],
                            !.status = preSaveStatus(calls[c].read[1], now)]]
    /\ Respond(c, "verifyPayment", 200, "document")
    /\ UNCHANGED <<now, payments, bookings, subs, scan, timer, req>>

\* a unique index on the slot: the insert of a second booking for it fails
bookingInsertUnique(user, body) == BookingValid(body) /\ ~existingBooking(user, body)

\* Booking.create succeeds: the schema's validation, and no unique index
bookingInsertAccepted(user, body) == BookingValid(body)

\* createBooking up to its first await
bookBegin(c, user, body) ==
    /\ calls[c].pc = "idle"
    /\ calls' = [calls EXCEPT ![c] =
                   [IdleCall EXCEPT !.pc = "lookup", !.user = user, !.arg = <<body>>]]
    /\ UNCHANGED <<now, docs, payments, bookings, subs, scan, timer, req, resp>>

\* await Booking.findOne({...})
bookLookup(c) ==
    /\ calls[c].pc = "lookup"
    /\ IF existingBooking(calls[c].user, calls[c].arg[1])
       THEN Respond(c, "createBooking", 400,
                    "You already have a booking at this time")
       ELSE calls' = [calls EXCEPT ![c].pc = "create"] /\ UNCHANGED resp
    /\ UNCHANGED <<now, docs, payments, bookings, subs, scan, timer, req>>

\* await Booking.create({...})
bookCreate(c) ==
    /\ calls[c].pc = "create"
    /\ IF bookingInsertAccepted(calls[c].user, calls[c].arg[1])
       THEN /\ bookings' = Append(bookings,
                 [user |-> calls[c].user, date |-> calls[c].arg[1].date[1],
                  startTime |-> calls[c].arg[1].startTime, status |-> "confirmed"])
            /\ Respond(c, "createBooking", 201, "data")
       ELSE /\ Respond(c, "createBooking", 500, "Server Error")
            /\ UNCHANGED bookings
    /\ UNCHANGED <<now, docs, payments, subs, scan, timer, req>>

---------------------------------------------------------------------------
(* Time *)

\* the clock read by new Date() moves on by half a day
Tick ==
    /\ now < MaxTicks * (DayLen \div 2)
    /\ now' = now + DayLen \div 2
    /\ UNCHANGED <<docs, payments, bookings, subs, scan, timer, calls, req, resp>>

---------------------------------------------------------------------------

Init ==
    /\ now = 0
    /\ docs = <<>>
    /\ payments = <<>>
    /\ bookings = <<>>
    /\ subs = [u \in Users |-> <<>>]
    /\ scan = IdleScan
    /\ timer = NoTimer
    /\ calls = [c \in CallSlots |-> IdleCall]
    /\ req = NoReq
    /\ resp = NoResp

(* The documents routes, the guard passed *)
Next ==
    \/ \E user \in Users, body \in DocBodies :
          Len(docs) < MaxDocs /\ addDocument(user, body) /\ UNCHANGED <<req, timer, calls>>
    \/ \E user \in Users, id \in DocIdInputs, body \in UpdateBodies :
          updateDocument(user, id, body) /\ UNCHANGED <<req, timer, calls>>
    \/ \E user \in Users, id \in DocIdInputs :
          deleteDocument(user, id) /\ UNCHANGED <<req, timer, calls>>
    \/ Tick

Spec == Init /\ [][Next]_vars

(* The documents and payments routes, the guard passed *)
NextPay ==
    \/ \E user \in Users, body \in PlainBodies :
          Len(docs) < MaxDocs /\ addDocument(user, body) /\ UNCHANGED <<req, timer, calls>>
    \/ \E user \in Users, id \in DocIdInputs :
          deleteDocument(user, id) /\ UNCHANGED <<req, timer, calls>>
    \/ \E user \in Users, reference \in Refs, documentId \in DocIdInputs,
          secretKey \in BOOLEAN, gateway \in GatewayAnswers :
            verifyPayment(user, reference, documentId, secretKey, gateway)
            /\ UNCHANGED <<req, timer, calls>>
    \/ Tick

SpecPay == Init /\ [][NextPay]_vars

(* The bookings routes behind the guard: router.use(protect) *)
NextBooking ==
    \/ \E cred \in Creds : protect(cred)
    \/ \E body \in BookingBodies :
          /\ req # NoReq
          /\ Len(bookings) < MaxBookings
          /\ createBooking(req, body)
          /\ req' = NoReq
          /\ UNCHANGED <<timer, calls>>
    \/ \E id \in BookingIdInputs :
          /\ req # NoReq
          /\ cancelBooking(req, id)
          /\ req' = NoReq
          /\ UNCHANGED <<timer, calls>>

SpecBooking == Init /\ [][NextBooking]_vars

(* The scan on its timer; documents are added and subscriptions changed
   between two scans *)
NextNotify ==
    \/ \E user \in Users, body \in ScanBodies :
          /\ scan.pc = "idle"
          /\ Len(docs) < MaxScanDocs
          /\ addDocument(user, body) /\ UNCHANGED <<req, timer, calls>>
    \/ \E user \in Users, endpoint \in Endpoints :
          scan.pc = "idle" /\ subscribe(user, endpoint) /\ UNCHANGED <<req, timer, calls>>
    \/ \E user \in Users, endpoint \in Endpoints :
          scan.pc = "idle" /\ optOut(user, endpoint) /\ UNCHANGED <<req, timer, calls>>
    \/ \E user \in Users, endpoint \in Endpoints :
          scan.pc = "idle" /\ optIn(user, endpoint) /\ UNCHANGED <<req, timer, calls>>
    \/ \E user \in Users, endpoint \in Endpoints :
          scan.pc = "idle" /\ unsubscribe(user, endpoint) /\ UNCHANGED <<req, timer, calls>>
    \/ (scanFindExpired /\ UNCHANGED timer)
    \/ scanFindSoon
    \/ scanLookup
    \/ \E ok \in BOOLEAN : scanSend(ok)
    \/ scanNextDoc
    \/ scanLoopsEnd
    \/ scanDone

SpecNotify == Init /\ [][NextNotify]_vars

(* The process from its start: the timer of the scan, and requests served
   between two scans once the server listens *)
NextTimer ==
    \/ startServer
    \/ timerTick
    \/ \E user \in Users, body \in ScanBodies :
          /\ timer.started /\ scan.pc = "idle"
          /\ Len(docs) < MaxScanDocs
          /\ addDocument(user, body) /\ UNCHANGED <<req, timer, calls>>
    \/ \E user \in Users, endpoint \in Endpoints :
          /\ timer.started /\ scan.pc = "idle"
          /\ subscribe(user, endpoint) /\ UNCHANGED <<req, timer, calls>>
    \/ scanFindSoon
    \/ scanLookup
    \/ \E ok \in BOOLEAN : scanSend(ok)
    \/ scanNextDoc
    \/ scanLoopsEnd
    \/ scanDone

SpecTimer == Init /\ [][NextTimer]_vars

(* Payments with two requests in flight at once, the guard passed *)
NextPayRace ==
    \/ \E user \in Users, body \in PlainBodies :
          Len(docs) < MaxDocs /\ addDocument(user, body)
          /\ UNCHANGED <<req, timer, calls>>
    \/ \E c \in CallSlots, user \in Users, reference \in Refs,
          documentId \in DocIdInputs, secretKey \in BOOLEAN,
          gateway \in GatewayAnswers :
            payBegin(c, user, reference, documentId, secretKey, gateway)
    \/ \E c \in CallSlots : payLookup(c)
    \/ \E c \in CallSlots : payRecord(c)
    \/ \E c \in CallSlots : payFind(c)
    \/ \E c \in CallSlots : paySave(c)

SpecPayRace == Init /\ [][NextPayRace]_vars

(* Bookings with two requests in flight at once, the guard passed *)
NextBookingRace ==
    \/ \E c \in CallSlots, user \in Users, body \in BookingBodies :
          bookBegin(c, user, body)
    \/ \E c \in CallSlots : bookLookup(c)
    \/ \E c \in CallSlots : bookCreate(c)

SpecBookingRace == Init /\ [][NextBookingRace]_vars

---------------------------------------------------------------------------
(* Documents: status *)

\* the status the specification gives a document written at time today
StatusAgrees(doc, today) ==
    LET daysUntil == Ceil(doc.expiryDate - today, DayLen)
        soon == 0 <= daysUntil /\ daysUntil <= SoonDays
    IN /\ (doc.status = "expired") <=> (doc.expiryDate < today)
       /\ (doc.status = "expiring") <=> soon
       /\ (doc.status = "valid") <=> (~(doc.expiryDate < today) /\ ~soon)

\* C1: the document a successful addDocument, updateDocument or verifyPayment
\* has just written carries the status its expiryDate gives at that moment:
\* expired iff expiryDate < now, expiring iff 0 <= daysUntil <= 30, else valid.
C1_StatusAgreesAfterWrite ==
    [][ /\ \A user \in Users, body \in DocBodies :
             (addDocument(user, body) /\ resp'.code = 201)
                => StatusAgrees(docs'[Len(docs')], now)
        /\ \A user \in Users, id \in DocIdInputs, body \in UpdateBodies :
             (updateDocument(user, id, body) /\ resp'.code = 200)
                => StatusAgrees(docs'[id], now)
        /\ \A user \in Users, reference \in Refs, documentId \in DocIdInputs :
             (verifyPayment(user, reference, documentId, TRUE, "success")
                /\ resp'.msg = "document")
                => StatusAgrees(docs'[documentId], now) ]_vars

\* C2: when the body of a successful addDocument or updateDocument carries a
\* status, the stored status is the one computed from the stored expiryDate.
C2_CallerNeverChoosesStatus ==
    [][ /\ \A user \in Users, body \in DocBodies :
             (addDocument(user, body) /\ body.status # Absent /\ resp'.code = 201)
                => docs'[Len(docs')].status
                     = preSaveStatus(docs'[Len(docs')].expiryDate, now)
        /\ \A user \in Users, id \in DocIdInputs, body \in UpdateBodies :
             (updateDocument(user, id, body) /\ body.status # Absent
                /\ resp'.code = 200)
                => docs'[id].status = preSaveStatus(docs'[id].expiryDate, now) ]_vars

---------------------------------------------------------------------------
(* Payments *)

\* a Payment record carries the reference
Recorded(reference) ==
    \E i \in 1..Len(payments) : payments[i].paystackReference = reference

\* C3: a verifyPayment for a reference the gateway reports as success answers
\* 200; when a Payment record already carries the reference (an earlier
\* verifyPayment for it has completed) it changes neither any document nor
\* the Payment records.
C3_VerifyIdempotent ==
    [][ \A user \in Users, reference \in Refs, documentId \in DocIdInputs :
          verifyPayment(user, reference, documentId, TRUE, "success") =>
            /\ Recorded(reference)
                 => (docs' = docs /\ payments' = payments /\ resp'.code = 200)
            /\ (~Recorded(reference) /\ Exists(documentId))
                 => (resp'.code = 200 /\ Len(payments') = Len(payments) + 1) ]_vars

C3_Witness ==
    /\ resp = Resp("verifyPayment", 200, "Already processed")
    /\ \E i \in 1..Len(payments) : Exists(payments[i].document)

\* C4: the first successful verifyPayment of a reference for an existing
\* document sets expiryDate to now + 1 year when it was before now and to
\* expiryDate + 1 year otherwise, and leaves the status valid.
C4_ExtendsOneYear ==
    [][ \A user \in Users, reference \in Refs, documentId \in DocIdInputs :
          (verifyPayment(user, reference, documentId, TRUE, "success")
             /\ ~Recorded(reference) /\ Exists(documentId))
          => /\ docs'[documentId].expiryDate =
                  (IF docs[documentId].expiryDate < now
                   THEN now + YearLen
                   ELSE docs[documentId].expiryDate + YearLen)
             /\ docs'[documentId].status = "valid"
             /\ docs'[documentId].user = docs[documentId].user ]_vars

\* both cases have happened to document 1: extended from now, then from its
\* expiry date
C4_Witness ==
    /\ resp = Resp("verifyPayment", 200, "document")
    /\ Len(payments) = 2
    /\ Exists(1)
    /\ docs[1].expiryDate = now + 2 * YearLen
    /\ docs[1].status = "valid"

\* C5: a verifyPayment whose gateway call throws or reports another status
\* than success answers 400 or 500, records no payment and changes no
\* document.
C5_GatewayFailureChangesNothing ==
    [][ \A user \in Users, reference \in Refs, documentId \in DocIdInputs,
           secretKey \in BOOLEAN, gateway \in GatewayAnswers :
          (verifyPayment(user, reference, documentId, secretKey, gateway)
             /\ (~secretKey \/ gateway # "success"))
          => /\ resp'.code \in {400, 500}
             /\ payments' = payments
             /\ docs' = docs ]_vars

C5_Witness ==
    /\ resp = Resp("verifyPayment", 400, "Payment verification failed")
    /\ Exists(1)
    /\ payments = <<>>

---------------------------------------------------------------------------
(* Bookings *)

Active(i) == bookings[i].status # "cancelled"

SameSlot(i, j) ==
    /\ bookings[i].user = bookings[j].user
    /\ bookings[i].date = bookings[j].date
    /\ bookings[i].startTime = bookings[j].startTime

NoDoubleBooking ==
    \A i, j \in 1..Len(bookings) : (i # j /\ Active(i) /\ Active(j)) => ~SameSlot(i, j)

\* the requester holds a non-cancelled booking for the slot the body names
HoldsSlot(user, body) ==
    \E i \in 1..Len(bookings) :
        /\ bookings[i].user = user /\ Active(i)
        /\ body.date = <<bookings[i].date>>
        /\ body.startTime = bookings[i].startTime

\* C6: with requests handled one at a time no two non-cancelled bookings of
\* one owner share (date, startTime), and a createBooking for a slot the
\* owner holds a non-cancelled booking for answers 400 and adds no booking.
C6_NoDoubleBooking ==
    /\ []NoDoubleBooking
    /\ [][ \A body \in BookingBodies :
             (createBooking(req, body) /\ HoldsSlot(req, body))
                => (resp'.code = 400 /\ bookings' = bookings) ]_vars

\* the same slot was asked for a second time and refused
C6_Witness ==
    /\ resp = Resp("createBooking", 400, "You already have a booking at this time")
    /\ Len(bookings) = 1
    /\ Active(1)

\* C7: a cancelBooking by another identity than the booking's owner answers
\* 401 and leaves the bookings as they were; a booking becomes cancelled only
\* in a request of its owner.
C7_CancelOwnerOnly ==
    [][ /\ \A id \in 1..Len(bookings) :
             (cancelBooking(req, id) /\ bookings[id].user # req)
                => (resp'.code = 401 /\ bookings' = bookings)
        /\ \A i \in 1..Len(bookings) :
             (Active(i) /\ bookings'[i].status = "cancelled")
                => (req = bookings[i].user /\ resp'.code = 200) ]_vars

C7_Witness ==
    /\ resp = Resp("cancelBooking", 401, "Not authorized to cancel this booking")
    /\ \E i \in 1..Len(bookings) : Active(i)

\* C8: when the owner holds a cancelled booking for a slot and no
\* non-cancelled one, a createBooking of the owner for that slot whose other
\* fields pass the schema answers 201 and adds a confirmed booking for it.
C8_CancelledSlotFree ==
    [][ \A body \in BookingBodies :
          (/\ createBooking(req, body)
           /\ body.valid
           /\ ~HoldsSlot(req, body)
           /\ \E i \in 1..Len(bookings) :
                /\ bookings[i].user = req /\ ~Active(i)
                /\ body.date = <<bookings[i].date>>
                /\ body.startTime = bookings[i].startTime)
          => /\ resp'.code = 201
             /\ bookings' = Append(bookings,
                  [user |-> req, date |-> body.date[1],
                   startTime |-> body.startTime, status |-> "confirmed"]) ]_vars

\* a slot booked, cancelled and booked again
C8_Witness ==
    /\ resp = Resp("createBooking", 201, "data")
    /\ \E i, j \in 1..Len(bookings) :
         /\ i < j /\ SameSlot(i, j) /\ ~Active(i) /\ Active(j)

---------------------------------------------------------------------------
(* Auth guard *)

\* the credential the guard reads (the cookie token, else the Bearer header)
\* passes verification and names a stored user
GoodCred(cred) ==
    LET token == IF cred.cookie # NoToken THEN cred.cookie ELSE cred.bearer
    IN token # NoToken /\ token.verifies /\ token.id \in Users

CredUser(cred) ==
    IF cred.cookie # NoToken THEN cred.cookie.id ELSE cred.bearer.id

\* C9: the guard hands a request on (req.user set) only for a good
\* credential, and then req.user is the stored user it names; in every other
\* case it answers 401.  A handler runs, and storage changes, only for a
\* request the guard has handed on.
C9_GuardFailsClosed ==
    [][ /\ \A cred \in Creds :
             protect(cred) =>
               IF GoodCred(cred)
               THEN req' = CredUser(cred) /\ resp' = NoResp
               ELSE req' = NoReq /\ resp'.code = 401
        /\ (resp'.op \in {"createBooking", "cancelBooking"} /\ resp' # resp)
             => req \in Users
        /\ bookings' # bookings => req \in Users ]_vars

\* the guard has refused a request while a booking is stored, and nothing ran
C9_Witness ==
    /\ resp = Resp("protect", 401, "Not authorized")
    /\ req = NoReq
    /\ Len(bookings) >= 1

---------------------------------------------------------------------------
(* Notification scan *)

\* a stored document the scan is to notify about: expired, or expiring
\* within the window
Matching(id) ==
    /\ docs[id] # NoDoc
    /\ docs[id].expiryDate <= now + SoonDays * DayLen

EnabledOf(user) ==
    {subs[user][k].endpoint : k \in {n \in 1..Len(subs[user]) : subs[user][n].enabled}}

Attempts(id, endpoint) ==
    {k \in 1..Len(scan.log) :
        scan.queue[scan.log[k].doc].id = id /\ scan.log[k].endpoint = endpoint}

\* C10: when a scan returns, exactly one delivery attempt has been made for
\* every matching document and every enabled subscription of its owner,
\* however many of the attempts failed.
C10_FailureIsolated ==
    scan.pc = "return" =>
        /\ \A id \in 1..Len(docs) : Matching(id) =>
              \A endpoint \in EnabledOf(docs[id].user) :
                  Cardinality(Attempts(id, endpoint)) = 1
        /\ scan.failures <= Len(scan.log)

\* a scan over two documents has returned with every one of its three or
\* more attempts failed
C10_Witness ==
    /\ scan.pc = "return"
    /\ Len(scan.queue) = 2
    /\ Len(scan.log) >= 3
    /\ scan.failures = Len(scan.log)

---------------------------------------------------------------------------
(* Documents: ownership *)

\* C12: an updateDocument or deleteDocument naming an id that no stored
\* document has answers 404, one by another identity than the document's
\* owner answers 401, and both leave every document as it was.
C12_DocumentOwnerScoped ==
    [][ /\ \A user \in Users, id \in DocIdInputs, body \in UpdateBodies :
             updateDocument(user, id, body) =>
               IF ~Exists(id) THEN resp'.code = 404 /\ docs' = docs
               ELSE docs[id].user # user => (resp'.code = 401 /\ docs' = docs)
        /\ \A user \in Users, id \in DocIdInputs :
             deleteDocument(user, id) =>
               IF ~Exists(id) THEN resp'.code = 404 /\ docs' = docs
               ELSE docs[id].user # user => (resp'.code = 401 /\ docs' = docs) ]_vars

\* an update by another identity has been refused and the document is there
C12_Witness ==
    /\ resp = Resp("updateDocument", 401, "Not authorized")
    /\ Exists(1)

---------------------------------------------------------------------------
(* Documents: validation *)

\* a body of POST /documents that lacks a required field
LacksRequired(body) == body.expiryDate = <<>> \/ ~body.complete

\* C13: an addDocument whose body lacks expiryDate, country, type or number
\* answers 400 and stores nothing.
C13_MissingFieldAnswers400 ==
    [][ \A user \in Users, body \in DocBodies :
          (addDocument(user, body) /\ LacksRequired(body))
             => (resp'.code = 400 /\ docs' = docs) ]_vars

\* the least d with d days >= span: the ceiling of span / one day
DaysUntil(span) ==
    CHOOSE d \in -(2 * SoonDays)..(2 * SoonDays) :
        d * DayLen >= span /\ (d - 1) * DayLen < span

\* C14: the status a successful addDocument stores is given by
\* d = ceiling((expiryDate - now) / one day): expired iff d < 0, expiring iff
\* 0 <= d <= 30, valid iff d > 30; expiryDate = now and expiryDate = now + 30
\* days give expiring, an expiryDate beyond now + 30 days gives valid.
C14_StatusFromCeiling ==
    [][ \A user \in Users, body \in DocBodies :
          (addDocument(user, body) /\ resp'.code = 201) =>
            LET doc == docs'[Len(docs')]
                d == DaysUntil(doc.expiryDate - now)
            IN /\ (doc.status = "expired") <=> (d < 0)
               /\ (doc.status = "expiring") <=> (0 <= d /\ d <= SoonDays)
               /\ (doc.status = "valid") <=> (d > SoonDays)
               /\ doc.expiryDate = now => doc.status = "expiring"
               /\ doc.expiryDate = now + SoonDays * DayLen => doc.status = "expiring"
               /\ doc.expiryDate > now + SoonDays * DayLen => doc.status = "valid" ]_vars

\* a document expiring exactly 30 days ahead has just been stored as expiring
C14_Witness ==
    /\ resp = Resp("addDocument", 201, "Document added successfully")
    /\ Exists(Len(docs))
    /\ docs[Len(docs)].expiryDate = now + SoonDays * DayLen
    /\ docs[Len(docs)].status = "expiring"

---------------------------------------------------------------------------
(* Scan timer *)

\* C11: once the process has started, one scan has been begun at the start
\* itself, before any timer tick, and one more at every timer tick: the scans
\* begun are one more than the ticks.
C11_ScanAtStartThenEveryTick ==
    timer.started => timer.scans = timer.ticks + 1

---------------------------------------------------------------------------
(* Notification scan: the enabled flag *)

\* the endpoints stored for the user, enabled or not
StoredOf(user) == {subs[user][k].endpoint : k \in 1..Len(subs[user])}

\* the delivery attempts of the scan made for a document of the user
AttemptsFor(user) ==
    {k \in 1..Len(scan.log) : scan.queue[scan.log[k].doc].user = user}

\* C17: every delivery attempt of a scan goes to an endpoint that is stored
\* enabled for the document's owner, so a scan begun after an opt-out attempts
\* nothing for the endpoint until a subscribe or an opt-in has enabled it
\* again; an opt-out leaves the user's stored endpoints as they were, the
\* one it names disabled, and a subscribe leaves its endpoint enabled.
C17_EnabledGatesDelivery ==
    /\ [](\A k \in 1..Len(scan.log) :
            scan.log[k].endpoint \in EnabledOf(scan.queue[scan.log[k].doc].user))
    /\ [][ \A user \in Users, endpoint \in Endpoints :
             /\ optOut(user, endpoint) =>
                  /\ Len(subs'[user]) = Len(subs[user])
                  /\ \A k \in 1..Len(subs[user]) :
                        /\ subs'[user][k].endpoint = subs[user][k].endpoint
                        /\ subs'[user][k].enabled =
                             (subs[user][k].enabled /\ subs[user][k].endpoint # endpoint)
             /\ subscribe(user, endpoint) =>
                  \E k \in 1..Len(subs'[user]) :
                      subs'[user][k] = [endpoint |-> endpoint, enabled |-> TRUE]
             /\ (optIn(user, endpoint) /\ endpoint \in StoredOf(user)) =>
                  \E k \in 1..Len(subs'[user]) :
                      subs'[user][k] = [endpoint |-> endpoint, enabled |-> TRUE] ]_vars

\* a scan has returned with attempts made for a user's document, none of
\* them to the endpoint the user has stored and opted out of
C17_Witness ==
    /\ scan.pc = "return"
    /\ \E user \in Users :
         /\ AttemptsFor(user) # {}
         /\ StoredOf(user) \ EnabledOf(user) # {}
         /\ \A k \in AttemptsFor(user) : scan.log[k].endpoint \in EnabledOf(user)

---------------------------------------------------------------------------
(* Requests in flight at once *)

\* the Payment records that carry the reference
RecordsOf(reference) ==
    {i \in 1..Len(payments) : payments[i].paystackReference = reference}

\* C15: nothing ties the lookup of an earlier payment to the insert of the
\* record.  A verifyPayment that has passed the lookup inserts its Payment
\* record and saves its extension whatever has been recorded since, so two
\* calls for one reference that are both past the lookup and the insert
\* leave two Payment records with the reference.
C15_LookupAndRecordNotAtomic ==
    /\ [](\A c1, c2 \in CallSlots :
            (/\ c1 # c2
             /\ calls[c1].pc \in {"find", "save"}
             /\ calls[c2].pc \in {"find", "save"}
             /\ calls[c1].arg[1] = calls[c2].arg[1])
            => Cardinality(RecordsOf(calls[c1].arg[1])) = 2)
    /\ [][ \A c \in CallSlots :
             /\ payRecord(c) =>
                  /\ Len(payments') = Len(payments) + 1
                  /\ payments'[Len(payments')].paystackReference = calls[c].arg[1]
                  /\ calls'[c].pc = "find"
             /\ paySave(c) =>
                  /\ docs'[calls[c].arg[2]].expiryDate = calls[c].read[1]
                  /\ calls'[c].code = 200 ]_vars

\* two Payment records carry one reference, both calls have answered 200 and
\* document 1 has been extended twice: by more than one year
C15_Witness ==
    /\ Len(payments) = 2
    /\ payments[1].paystackReference = payments[2].paystackReference
    /\ payments[1].document = 1 /\ payments[2].document = 1
    /\ \A c \in CallSlots : calls[c].pc = "done" /\ calls[c].code = 200
    /\ Exists(1)
    /\ docs[1].expiryDate = now + 2 * YearLen

\* C16: nothing ties the conflict lookup to the insert of the booking.  A
\* createBooking that has passed the lookup with a body the schema accepts
\* inserts its booking and answers 201, whatever has been inserted since.
C16_LookupAndInsertNotAtomic ==
    [][ \A c \in CallSlots :
          (bookCreate(c) /\ BookingValid(calls[c].arg[1])) =>
            /\ Len(bookings') = Len(bookings) + 1
            /\ bookings'[Len(bookings')].status = "confirmed"
            /\ calls'[c].code = 201 ]_vars

\* both calls of one owner for one slot have answered 201 and two
\* non-cancelled bookings hold the slot
C16_Witness ==
    /\ \A c \in CallSlots : calls[c].pc = "done" /\ calls[c].code = 201
    /\ calls[1].user = calls[2].user
    /\ calls[1].arg = calls[2].arg
    /\ Len(bookings) = 2
    /\ SameSlot(1, 2) /\ Active(1) /\ Active(2)

---------------------------------------------------------------------------
(* Payments: record, requester and owner *)

\* C18: a verifyPayment that answers 404 'Document not found' leaves no
\* Payment record for its reference.
C18_NotFoundRecordsNothing ==
    [][ \A user \in Users, reference \in Refs, documentId \in DocIdInputs,
           secretKey \in BOOLEAN, gateway \in GatewayAnswers :
          (verifyPayment(user, reference, documentId, secretKey, gateway)
             /\ resp'.code = 404)
          => (payments' = payments /\ ~\E i \in 1..Len(payments') :
                                         payments'[i].paystackReference = reference) ]_vars

\* C19: a verifyPayment by an identity that does not own the document it
\* names leaves the document's expiryDate and status as they were, whatever
\* the gateway answers.
C19_PaysOnlyForOwnDocument ==
    [][ \A user \in Users, reference \in Refs, documentId \in DocIdInputs,
           secretKey \in BOOLEAN, gateway \in GatewayAnswers :
          (/\ verifyPayment(user, reference, documentId, secretKey, gateway)
           /\ Exists(documentId)
           /\ docs[documentId].user # user)
          => /\ docs'[documentId].expiryDate = docs[documentId].expiryDate
             /\ docs'[documentId].status = docs[documentId].status ]_vars

---------------------------------------------------------------------------
(* Documents: the owner *)

\* C20: addDocument stores the requester as owner whatever user the body
\* carries, and no request changes the stored owner of a document that is
\* there before and after it.
C20_OwnerFixedAtCreation ==
    [][ /\ \A user \in Users, body \in DocBodies :
             (addDocument(user, body) /\ resp'.code = 201)
                => docs'[Len(docs')].user = user
        /\ \A id \in 1..Len(docs) :
             (docs[id] # NoDoc /\ docs'[id] # NoDoc)
                => docs'[id].user = docs[id].user ]_vars

===========================================================================
